---- MODULE Spec2Model ----
(***************************************************************************)
(* Model of ExpenseReconciler (src/streamlit_app_english.py): the person   *)
(* columns built by the two loaders, find_matches (candidate generation,   *)
(* quality scoring, stable descending sort, greedy de-duplication),        *)
(* generate_report_df and the statistics main computes from the result.    *)
(*                                                                         *)
(* Representation.                                                         *)
(*  - A string is a sequence of one-character strings, so that lower(),    *)
(*    strip() and the substring test are computed, not assumed.            *)
(*  - A date is a day number; an amount is a whole number of half dollars  *)
(*    (200 = $100.00, 203 = $101.50); tolerance_amount uses the same unit. *)
(*  - A quality is the exact rational q/QualityDen with                    *)
(*    QualityDen = 100 * tolerance_days * tolerance_amount; match_quality  *)
(*    holds the numerator q.  All candidates of one run share the          *)
(*    denominator, so comparing numerators compares qualities.             *)
(*    person_match_quality is held in tenths (10, 8, 0).                   *)
(*  - A DataFrame index label is the row's position 1..Len(df).            *)
(*  - A match reads its two records through cap_idx / job_idx; the copies  *)
(*    the match dict keeps (cap_date, job_amount, ...) are those values.   *)
(*  - The free-text columns (description, card number, notes) are left     *)
(*    out; the Person_Check labels are written without their emoji.        *)
(*  - A local that main has not assigned yet holds -1.                     *)
(***************************************************************************)
EXTENDS Integers, Sequences, FiniteSets, TLC

VARIABLES capitalone_df, jobber_df, tolerance_amount, tolerance_days,
          check_person, pc, matches, final_matches, used_cap_idx, used_job_idx,
          report_data, matched_count, cap_only_count, job_only_count,
          match_percentage, person_mismatches

mainVars == <<report_data, matched_count, cap_only_count, job_only_count,
              match_percentage, person_mismatches>>

vars == <<capitalone_df, jobber_df, tolerance_amount, tolerance_days,
          check_person, pc, matches, final_matches, used_cap_idx, used_job_idx,
          mainVars>>

\* ------------------------------------------------------------- bounds
MaxCap == 2
MaxJob == 2
MaxDay == 1

Days == 0..MaxDay
Amounts == {200, 203}
\* The days slider offers 0..7, the amount slider 0.1..10.0 dollars.
ToleranceDays == {0, 1, 2}
ToleranceAmounts == {2, 4}

\* ------------------------------------------------------------ strings
NA == <<"N", "/", "A">>
Unknown == <<"U", "n", "k", "n", "o", "w", "n">>
UnknownCardPrefix == <<"U", "n", "k", "n", "o", "w", "n", " ", "C", "a", "r", "d", " ">>
AaronDavidson == <<"A", "a", "r", "o", "n", " ", "D", "a", "v", "i", "d", "s", "o", "n">>
AlexMasuda == <<"A", "l", "e", "x", " ", "M", "a", "s", "u", "d", "a">>
JerichoTaylorDaves == <<"J", "e", "r", "i", "c", "h", "o", " ", "T", "a", "y", "l", "o", "r", "-", "D", "a", "v", "e", "s">>
JerryMorales == <<"J", "e", "r", "r", "y", " ", "M", "o", "r", "a", "l", "e", "s">>
Antonio == <<"A", "n", "t", "o", "n", "i", "o">>
Aaron == <<"A", "a", "r", "o", "n">>
aaron_davidson == <<"a", "a", "r", "o", "n", " ", "d", "a", "v", "i", "d", "s", "o", "n">>

\* A missing spreadsheet cell (pd.isna).
NaN == <<"NaN">>

card_to_person ==
    (<<"9", "2", "6", "5">> :> AaronDavidson) @@
    (<<"4", "2", "9", "8">> :> AlexMasuda) @@
    (<<"1", "7", "2", "5">> :> JerichoTaylorDaves) @@
    (<<"3", "2", "5", "3">> :> JerryMorales) @@
    (<<"2", "9", "8", "4">> :> Antonio)

UpperToLower ==
    ("A" :> "a") @@ ("B" :> "b") @@ ("C" :> "c") @@ ("D" :> "d") @@ ("E" :> "e") @@
    ("F" :> "f") @@ ("G" :> "g") @@ ("H" :> "h") @@ ("I" :> "i") @@ ("J" :> "j") @@
    ("K" :> "k") @@ ("L" :> "l") @@ ("M" :> "m") @@ ("N" :> "n") @@ ("O" :> "o") @@
    ("P" :> "p") @@ ("Q" :> "q") @@ ("R" :> "r") @@ ("S" :> "s") @@ ("T" :> "t") @@
    ("U" :> "u") @@ ("V" :> "v") @@ ("W" :> "w") @@ ("X" :> "x") @@ ("Y" :> "y") @@
    ("Z" :> "z")

\* str.lower()
lower(s) == [i \in DOMAIN s |-> IF s[i] \in DOMAIN UpperToLower THEN UpperToLower[s[i]] ELSE s[i]]

RECURSIVE lstrip(_)
lstrip(s) == IF s # <<>> /\ Head(s) = " " THEN lstrip(Tail(s)) ELSE s

RECURSIVE rstrip(_)
rstrip(s) == IF s # <<>> /\ s[Len(s)] = " " THEN rstrip(SubSeq(s, 1, Len(s) - 1)) ELSE s

\* str.strip()
strip(s) == rstrip(lstrip(s))

\* Python's  a in b  on strings.
Contains(a, b) == \E k \in 0..(Len(b) - Len(a)) : SubSeq(b, k + 1, k + Len(a)) = a

Abs(x) == IF x < 0 THEN 0 - x ELSE x

Max(x, y) == IF y > x THEN y ELSE x

SeqsUpTo(S, n) == UNION {[1..k -> S] : k \in 0..n}

\* ------------------------------------------------------------ loaders
get_person_name(card_no) ==
    IF card_no = NaN THEN Unknown
    ELSE IF card_no \in DOMAIN card_to_person THEN card_to_person[card_no]
    ELSE UnknownCardPrefix \o card_no

\* The person column of load_capitalone_data.
CapPerson(has_card_col, card_no) == IF has_card_col THEN get_person_name(card_no) ELSE NA

\* The person column of load_jobber_data.
JobPerson(has_entered_by_col, entered_by) ==
    IF has_entered_by_col THEN (IF entered_by = NaN THEN Unknown ELSE entered_by) ELSE NA

CardTokens == {NaN, <<"9", "2", "6", "5">>}
EnteredByValues == {NaN, Aaron, aaron_davidson, AlexMasuda}

CapRows(has_card_col) ==
    [date : Days, amount : Amounts,
     person : {CapPerson(has_card_col, t) : t \in CardTokens}]

JobRows(has_entered_by_col) ==
    [date : Days, amount : Amounts,
     person : {JobPerson(has_entered_by_col, e) : e \in EnteredByValues}]

CapFrames == UNION {SeqsUpTo(CapRows(h), MaxCap) : h \in BOOLEAN}
JobFrames == UNION {SeqsUpTo(JobRows(h), MaxJob) : h \in BOOLEAN}

\* ------------------------------------------------------- find_matches
DateDiff(cap_row, job_row) == Abs(cap_row.date - job_row.date)

AmountDiff(cap_row, job_row) == Abs(cap_row.amount - job_row.amount)

\* Variant: either tolerance suffices.
WithinTolerance_Either(date_diff, amount_diff) ==
    date_diff <= tolerance_days \/ amount_diff <= tolerance_amount

WithinTolerance(date_diff, amount_diff) ==
    date_diff <= tolerance_days /\ amount_diff <= tolerance_amount

\* Whether the person comparison is entered for a pair.
PersonCompared(cap_person, job_person) ==
    check_person /\ cap_person # NA /\ job_person # NA

\* Variant: the names compared without lower().
PersonCheck_CaseSensitive(cap_person, job_person) ==
    IF PersonCompared(cap_person, job_person)
    THEN LET cp == strip(cap_person)
             jp == strip(job_person)
         IN  IF cp = jp
             THEN [person_match |-> TRUE, person_match_quality |-> 10]
             ELSE IF Contains(cp, jp) \/ Contains(jp, cp)
                  THEN [person_match |-> TRUE, person_match_quality |-> 8]
                  ELSE [person_match |-> FALSE, person_match_quality |-> 0]
    ELSE [person_match |-> TRUE, person_match_quality |-> 10]

PersonCheck(cap_person, job_person) ==
    IF PersonCompared(cap_person, job_person)
    THEN LET cp == lower(strip(cap_person))
             jp == lower(strip(job_person))
         IN  IF cp = jp
             THEN [person_match |-> TRUE, person_match_quality |-> 10]
             ELSE IF Contains(cp, jp) \/ Contains(jp, cp)
                  THEN [person_match |-> TRUE, person_match_quality |-> 8]
                  ELSE [person_match |-> FALSE, person_match_quality |-> 0]
    ELSE [person_match |-> TRUE, person_match_quality |-> 10]

\* Variant: the gate admits every pair within tolerance.
PersonGate_Always(person_match) == TRUE

PersonGate(person_match) == person_match \/ ~check_person

\* A division by a zero tolerance raises ZeroDivisionError.
QualityRaises == tolerance_days = 0 \/ tolerance_amount = 0

QualityDen == 100 * tolerance_days * tolerance_amount

\* Variant: the date and amount weights exchanged.
calculate_match_quality_SwappedWeights(date_diff, amount_diff, person_match_quality) ==
    LET date_num == Max(0, tolerance_days - date_diff)
        amount_num == Max(0, tolerance_amount - amount_diff)
    IN  IF check_person
        THEN 40 * date_num * tolerance_amount + 20 * amount_num * tolerance_days
             + 4 * person_match_quality * tolerance_days * tolerance_amount
        ELSE 70 * date_num * tolerance_amount + 30 * amount_num * tolerance_days

\* Variant: the person term added to the standard 0.3/0.7 sum.
calculate_match_quality_Unscaled(date_diff, amount_diff, person_match_quality) ==
    LET date_num == Max(0, tolerance_days - date_diff)
        amount_num == Max(0, tolerance_amount - amount_diff)
    IN  IF check_person
        THEN 30 * date_num * tolerance_amount + 70 * amount_num * tolerance_days
             + 4 * person_match_quality * tolerance_days * tolerance_amount
        ELSE 30 * date_num * tolerance_amount + 70 * amount_num * tolerance_days

\* Variant: the 0.2/0.4/0.4 sum used whether or not check_person is set.
calculate_match_quality_AlwaysPerson(date_diff, amount_diff, person_match_quality) ==
    LET date_num == Max(0, tolerance_days - date_diff)
        amount_num == Max(0, tolerance_amount - amount_diff)
    IN  20 * date_num * tolerance_amount + 40 * amount_num * tolerance_days
        + 4 * person_match_quality * tolerance_days * tolerance_amount

\* The numerator of the quality over QualityDen.
calculate_match_quality(date_diff, amount_diff, person_match_quality) ==
    LET date_num == Max(0, tolerance_days - date_diff)
        amount_num == Max(0, tolerance_amount - amount_diff)
    IN  IF check_person
        THEN 20 * date_num * tolerance_amount + 40 * amount_num * tolerance_days
             + 4 * person_match_quality * tolerance_days * tolerance_amount
        ELSE 30 * date_num * tolerance_amount + 70 * amount_num * tolerance_days

\* Whether the pair reaches the body of  if person_match or not self.check_person.
PairAdmitted(cap_df, job_df, i, j) ==
    /\ WithinTolerance(DateDiff(cap_df[i], job_df[j]), AmountDiff(cap_df[i], job_df[j]))
    /\ PersonGate(PersonCheck(cap_df[i].person, job_df[j].person).person_match)

MatchOf(cap_df, job_df, i, j) ==
    LET dd == DateDiff(cap_df[i], job_df[j])
        ad == AmountDiff(cap_df[i], job_df[j])
        pk == PersonCheck(cap_df[i].person, job_df[j].person)
    IN  [cap_idx |-> i, job_idx |-> j, date_diff |-> dd, amount_diff |-> ad,
         person_match |-> pk.person_match,
         person_match_quality |-> pk.person_match_quality,
         match_quality |-> calculate_match_quality(dd, ad, pk.person_match_quality)]

\* The nested loops: the pairs numbered in iteration order, 0 .. n*m - 1.
RECURSIVE GenerateFrom(_, _, _)
GenerateFrom(cap_df, job_df, p) ==
    IF p >= Len(cap_df) * Len(job_df) THEN <<>>
    ELSE LET i == (p \div Len(job_df)) + 1
             j == (p % Len(job_df)) + 1
         IN  (IF PairAdmitted(cap_df, job_df, i, j)
              THEN <<MatchOf(cap_df, job_df, i, j)>> ELSE <<>>)
             \o GenerateFrom(cap_df, job_df, p + 1)

GenerateRaises(cap_df, job_df) ==
    /\ QualityRaises
    /\ \E i \in DOMAIN cap_df, j \in DOMAIN job_df : PairAdmitted(cap_df, job_df, i, j)

\* matches.sort(key=match_quality, reverse=True): stable, descending.
\* Variant: an equal-quality element is placed ahead of the earlier ones.
SortsBefore_Strict(x, y) == x.match_quality > y.match_quality

SortsBefore(x, y) == x.match_quality >= y.match_quality

RECURSIVE InsertSorted(_, _)
InsertSorted(s, x) ==
    IF s = <<>> THEN <<x>>
    ELSE IF SortsBefore(Head(s), x) THEN <<Head(s)>> \o InsertSorted(Tail(s), x)
    ELSE <<x>> \o s

RECURSIVE SortMatches(_)
SortMatches(s) ==
    IF s = <<>> THEN <<>>
    ELSE InsertSorted(SortMatches(SubSeq(s, 1, Len(s) - 1)), s[Len(s)])

\* Variant: only the source side is looked up.
Unused_CapOnly(match, used_cap, used_job) ==
    match.cap_idx \notin used_cap

\* The condition of the de-duplication loop.
Unused(match, used_cap, used_job) ==
    match.cap_idx \notin used_cap /\ match.job_idx \notin used_job

\* Variant: an accepted match's source is not added to used_cap_idx.
RECURSIVE Dedup_NoMarkCap(_, _)
Dedup_NoMarkCap(s, acc) ==
    IF s = <<>> THEN acc
    ELSE LET match == Head(s)
         IN  IF match.cap_idx \notin acc.used_cap_idx /\ match.job_idx \notin acc.used_job_idx
             THEN Dedup_NoMarkCap(Tail(s),
                                  [final_matches |-> Append(acc.final_matches, match),
                                   used_cap_idx |-> acc.used_cap_idx,
                                   used_job_idx |-> acc.used_job_idx \cup {match.job_idx}])
             ELSE Dedup_NoMarkCap(Tail(s), acc)

\* Variant: the loop ends at the first rejected candidate.
RECURSIVE Dedup_StopAtReject(_, _)
Dedup_StopAtReject(s, acc) ==
    IF s = <<>> THEN acc
    ELSE LET match == Head(s)
         IN  IF match.cap_idx \notin acc.used_cap_idx /\ match.job_idx \notin acc.used_job_idx
             THEN Dedup_StopAtReject(Tail(s),
                                     [final_matches |-> Append(acc.final_matches, match),
                                      used_cap_idx |-> acc.used_cap_idx \cup {match.cap_idx},
                                      used_job_idx |-> acc.used_job_idx \cup {match.job_idx}])
             ELSE acc

RECURSIVE Dedup(_, _)
Dedup(s, acc) ==
    IF s = <<>> THEN acc
    ELSE LET match == Head(s)
         IN  IF Unused(match, acc.used_cap_idx, acc.used_job_idx)
             THEN Dedup(Tail(s), [final_matches |-> Append(acc.final_matches, match),
                                  used_cap_idx |-> acc.used_cap_idx \cup {match.cap_idx},
                                  used_job_idx |-> acc.used_job_idx \cup {match.job_idx}])
             ELSE Dedup(Tail(s), acc)

\* -------------------------------------------------- generate_report_df
Digits == <<"0", "1", "2", "3", "4", "5", "6", "7", "8", "9">>

\* strftime('%Y-%m-%d'), day 0 being 2024-01-01.
strftime(date) ==
    <<"2", "0", "2", "4", "-", "0", "1", "-">>
    \o <<Digits[((date + 1) \div 10) + 1], Digits[((date + 1) % 10) + 1]>>

\* round(n / d) as Python rounds: to nearest, a half to the even neighbour.
RoundDiv(n, d) ==
    LET q == n \div d
        r == n % d
    IN  IF 2 * r < d THEN q
        ELSE IF 2 * r > d THEN q + 1
        ELSE IF q % 2 = 0 THEN q ELSE q + 1

\* round(match_quality * 100, 1), in tenths of a percent.
QualityPercent(match_quality) == RoundDiv(match_quality * 1000, QualityDen)

MatchRow(cap_df, job_df, match) ==
    [Status |-> "MATCH",
     CapitalOne_Date |-> strftime(cap_df[match.cap_idx].date),
     CapitalOne_Amount |-> cap_df[match.cap_idx].amount,
     CapitalOne_Person |-> cap_df[match.cap_idx].person,
     Jobber_Date |-> strftime(job_df[match.job_idx].date),
     Jobber_Amount |-> job_df[match.job_idx].amount,
     Jobber_Person |-> job_df[match.job_idx].person,
     Date_Diff_Days |-> match.date_diff,
     Amount_Diff |-> match.amount_diff,
     Person_Check |-> IF match.person_match THEN "Match" ELSE "Different Person",
     Match_Quality |-> QualityPercent(match.match_quality)]

MissingInJobberRow(row) ==
    [Status |-> "MISSING_IN_JOBBER",
     CapitalOne_Date |-> strftime(row.date),
     CapitalOne_Amount |-> row.amount,
     CapitalOne_Person |-> row.person,
     Jobber_Date |-> "", Jobber_Amount |-> "", Jobber_Person |-> "",
     Date_Diff_Days |-> "", Amount_Diff |-> "", Person_Check |-> "",
     Match_Quality |-> ""]

MissingInCapitalOneRow(row) ==
    [Status |-> "MISSING_IN_CAPITALONE",
     CapitalOne_Date |-> "", CapitalOne_Amount |-> "", CapitalOne_Person |-> "",
     Jobber_Date |-> strftime(row.date),
     Jobber_Amount |-> row.amount,
     Jobber_Person |-> row.person,
     Date_Diff_Days |-> "", Amount_Diff |-> "", Person_Check |-> "",
     Match_Quality |-> ""]

\* Variant: the used-index test is left out.
NotUsed_Always(idx, used) == TRUE

\* if idx not in used_cap_idx / used_job_idx
NotUsed(idx, used) == idx \notin used

RECURSIVE MatchRows(_, _, _)
MatchRows(cap_df, job_df, ms) ==
    IF ms = <<>> THEN <<>>
    ELSE <<MatchRow(cap_df, job_df, Head(ms))>> \o MatchRows(cap_df, job_df, Tail(ms))

RECURSIVE CapOnlyRows(_, _, _)
CapOnlyRows(cap_df, used_cap, idx) ==
    IF idx > Len(cap_df) THEN <<>>
    ELSE (IF NotUsed(idx, used_cap) THEN <<MissingInJobberRow(cap_df[idx])>> ELSE <<>>)
         \o CapOnlyRows(cap_df, used_cap, idx + 1)

RECURSIVE JobOnlyRows(_, _, _)
JobOnlyRows(job_df, used_job, idx) ==
    IF idx > Len(job_df) THEN <<>>
    ELSE (IF NotUsed(idx, used_job) THEN <<MissingInCapitalOneRow(job_df[idx])>> ELSE <<>>)
         \o JobOnlyRows(job_df, used_job, idx + 1)

generate_report_df(cap_df, job_df, ms, used_cap, used_job) ==
    MatchRows(cap_df, job_df, ms)
    \o CapOnlyRows(cap_df, used_cap, 1)
    \o JobOnlyRows(job_df, used_job, 1)

\* sum(1 for match in matches if not match['person_match'])
CountPersonMismatches(ms) ==
    Cardinality({k \in DOMAIN ms : ~ms[k].person_match})

\* ------------------------------------------------------------ actions
Init ==
    /\ capitalone_df \in CapFrames
    /\ jobber_df \in JobFrames
    /\ tolerance_amount \in ToleranceAmounts
    /\ tolerance_days \in ToleranceDays
    /\ check_person \in BOOLEAN
    /\ pc = "find_matches"
    /\ matches = <<>>
    /\ final_matches = <<>>
    /\ used_cap_idx = {}
    /\ used_job_idx = {}
    /\ report_data = <<>>
    /\ matched_count = -1
    /\ cap_only_count = -1
    /\ job_only_count = -1
    /\ match_percentage = [num |-> -1, den |-> 1]
    /\ person_mismatches = -1

\* Lines 186-236 when no division raises.
Generate ==
    /\ pc = "find_matches"
    /\ ~GenerateRaises(capitalone_df, jobber_df)
    /\ matches' = GenerateFrom(capitalone_df, jobber_df, 0)
    /\ pc' = "sort"
    /\ UNCHANGED <<capitalone_df, jobber_df, tolerance_amount, tolerance_days,
                   check_person, final_matches, used_cap_idx, used_job_idx, mainVars>>

\* Lines 186-236 when _calculate_match_quality divides by a zero tolerance.
Raise ==
    /\ pc = "find_matches"
    /\ GenerateRaises(capitalone_df, jobber_df)
    /\ pc' = "ZeroDivisionError"
    /\ UNCHANGED <<capitalone_df, jobber_df, tolerance_amount, tolerance_days,
                   check_person, matches, final_matches, used_cap_idx, used_job_idx, mainVars>>

Sort ==
    /\ pc = "sort"
    /\ matches' = SortMatches(matches)
    /\ pc' = "dedup"
    /\ UNCHANGED <<capitalone_df, jobber_df, tolerance_amount, tolerance_days,
                   check_person, final_matches, used_cap_idx, used_job_idx, mainVars>>

RemoveDuplicates ==
    /\ pc = "dedup"
    /\ LET r == Dedup(matches, [final_matches |-> <<>>, used_cap_idx |-> {}, used_job_idx |-> {}])
       IN  /\ final_matches' = r.final_matches
           /\ used_cap_idx' = r.used_cap_idx
           /\ used_job_idx' = r.used_job_idx
    /\ pc' = "returned"
    /\ UNCHANGED <<capitalone_df, jobber_df, tolerance_amount, tolerance_days,
                   check_person, matches, mainVars>>

\* main, line 435.
GenerateReport ==
    /\ pc = "returned"
    /\ report_data' = generate_report_df(capitalone_df, jobber_df, final_matches,
                                         used_cap_idx, used_job_idx)
    /\ pc' = "statistics"
    /\ UNCHANGED <<capitalone_df, jobber_df, tolerance_amount, tolerance_days,
                   check_person, matches, final_matches, used_cap_idx, used_job_idx,
                   matched_count, cap_only_count, job_only_count, match_percentage,
                   person_mismatches>>

\* main, lines 438-441 and 577-587.
Statistics ==
    /\ pc = "statistics"
    /\ Max(Len(capitalone_df), Len(jobber_df)) # 0
    /\ matched_count' = Len(final_matches)
    /\ cap_only_count' = Len(capitalone_df) - Len(final_matches)
    /\ job_only_count' = Len(jobber_df) - Len(final_matches)
    /\ match_percentage' = [num |-> Len(final_matches) * 100,
                            den |-> Max(Len(capitalone_df), Len(jobber_df))]
    /\ person_mismatches' = IF Len(final_matches) > 0 /\ check_person
                            THEN CountPersonMismatches(final_matches)
                            ELSE person_mismatches
    /\ pc' = "done"
    /\ UNCHANGED <<capitalone_df, jobber_df, tolerance_amount, tolerance_days,
                   check_person, matches, final_matches, used_cap_idx, used_job_idx,
                   report_data>>

\* main, line 441 with two empty frames: the percentage divides by zero.
StatisticsRaise ==
    /\ pc = "statistics"
    /\ Max(Len(capitalone_df), Len(jobber_df)) = 0
    /\ matched_count' = Len(final_matches)
    /\ cap_only_count' = Len(capitalone_df) - Len(final_matches)
    /\ job_only_count' = Len(jobber_df) - Len(final_matches)
    /\ pc' = "ZeroDivisionError in main"
    /\ UNCHANGED <<capitalone_df, jobber_df, tolerance_amount, tolerance_days,
                   check_person, matches, final_matches, used_cap_idx, used_job_idx,
                   report_data, match_percentage, person_mismatches>>

Next ==
    Generate \/ Raise \/ Sort \/ RemoveDuplicates
    \/ GenerateReport \/ Statistics \/ StatisticsRaise

Spec == Init /\ [][Next]_vars

\* ------------------------------------------------------------- claims
MatchedSource == {final_matches[k].cap_idx : k \in DOMAIN final_matches}
MatchedTarget == {final_matches[k].job_idx : k \in DOMAIN final_matches}
UnmatchedSource == DOMAIN capitalone_df \ used_cap_idx
UnmatchedTarget == DOMAIN jobber_df \ used_job_idx

PairWithin(i, j) ==
    /\ Abs(capitalone_df[i].date - jobber_df[j].date) <= tolerance_days
    /\ Abs(capitalone_df[i].amount - jobber_df[j].amount) <= tolerance_amount

\* C1 (partition): when find_matches has returned, every source id is in
\* exactly one of {source side of an accepted match, ids not in used_cap_idx},
\* every target id likewise, and |matches| + |unmatched| equals the number of
\* records on each side.
C1_Partition ==
    pc = "returned" =>
        /\ \A i \in DOMAIN capitalone_df : (i \in MatchedSource) # (i \in UnmatchedSource)
        /\ \A j \in DOMAIN jobber_df : (j \in MatchedTarget) # (j \in UnmatchedTarget)
        /\ Len(final_matches) + Cardinality(UnmatchedSource) = Len(capitalone_df)
        /\ Len(final_matches) + Cardinality(UnmatchedTarget) = Len(jobber_df)

\* A returned run with two candidates for one target: one source is matched,
\* the other is left unmatched.
C1_Witness ==
    /\ pc = "returned"
    /\ Len(matches) >= 2
    /\ Len(final_matches) = 1
    /\ UnmatchedSource # {}

\* C2 (tolerance containment): every accepted match joins a source and a
\* target record whose absolute date difference is at most tolerance_days and
\* whose absolute amount difference is at most tolerance_amount, and records
\* those differences; a pair outside either tolerance is never matched, and
\* when it is the only pair both records stay unmatched (Scenario B).
C2_ToleranceContainment ==
    /\ \A k \in DOMAIN final_matches :
          LET m == final_matches[k]
              c == capitalone_df[m.cap_idx]
              t == jobber_df[m.job_idx]
          IN  /\ m.date_diff = Abs(c.date - t.date)
              /\ m.amount_diff = Abs(c.amount - t.amount)
              /\ m.date_diff <= tolerance_days
              /\ m.amount_diff <= tolerance_amount
    /\ pc = "returned" =>
          /\ \A i \in DOMAIN capitalone_df, j \in DOMAIN jobber_df :
                ~PairWithin(i, j) =>
                    ~\E k \in DOMAIN final_matches :
                        final_matches[k].cap_idx = i /\ final_matches[k].job_idx = j
          /\ (Len(capitalone_df) = 1 /\ Len(jobber_df) = 1 /\ ~PairWithin(1, 1)) =>
                (final_matches = <<>> /\ UnmatchedSource = {1} /\ UnmatchedTarget = {1})

\* A returned run with an accepted match one day apart, beside a pair that is
\* outside the tolerance.
C2_Witness ==
    /\ pc = "returned"
    /\ \E k \in DOMAIN final_matches : final_matches[k].date_diff = 1
    /\ \E i \in DOMAIN capitalone_df, j \in DOMAIN jobber_df : ~PairWithin(i, j)

\* C3 (one-to-one): no source id and no target id occurs in two accepted
\* matches, and used_cap_idx / used_job_idx are exactly the ids the accepted
\* matches reference.
C3_OneToOne ==
    /\ \A k, l \in DOMAIN final_matches :
          k # l => /\ final_matches[k].cap_idx # final_matches[l].cap_idx
                   /\ final_matches[k].job_idx # final_matches[l].job_idx
    /\ used_cap_idx = MatchedSource
    /\ used_job_idx = MatchedTarget

\* A returned run where two matches were accepted and two candidates rejected.
C3_Witness ==
    /\ pc = "returned"
    /\ Len(final_matches) = 2
    /\ Len(matches) = 4

\* The pair (i, j) is among the generated candidates.
IsCandidate(i, j) ==
    \E k \in DOMAIN matches : matches[k].cap_idx = i /\ matches[k].job_idx = j

IsMatched(i, j) ==
    \E k \in DOMAIN final_matches :
        final_matches[k].cap_idx = i /\ final_matches[k].job_idx = j

Generated == pc \in {"sort", "dedup", "returned"}

\* An identity that names a person: neither not-applicable nor Unknown.
IdentityKnown(person) == person # NA /\ person # Unknown

\* The identity score in tenths: 10 equal ignoring case, 8 one contains the
\* other ignoring case, 0 otherwise.
IdentityScore(cap_person, job_person) ==
    LET a == lower(strip(cap_person))
        b == lower(strip(job_person))
    IN  IF a = b THEN 10
        ELSE IF (\E k \in 0..(Len(b) - Len(a)) : SubSeq(b, k + 1, k + Len(a)) = a)
                \/ (\E k \in 0..(Len(a) - Len(b)) : SubSeq(a, k + 1, k + Len(b)) = b)
             THEN 8 ELSE 0

\* No other pair within tolerance involves source i or target j.
OnlyPairWithin(i, j) ==
    \A i2 \in DOMAIN capitalone_df, j2 \in DOMAIN jobber_df :
        (<<i2, j2>> # <<i, j>> /\ (i2 = i \/ j2 = j)) => ~PairWithin(i2, j2)

\* C4 (identity non-exclusion): with check_person on, a pair whose identities
\* are both known and differ (identity score 0) but whose date and amount are
\* within tolerance, and which no other pair competes with, is an accepted
\* match when find_matches returns.
C4_IdentityNonExclusion ==
    (pc = "returned" /\ check_person) =>
        \A i \in DOMAIN capitalone_df, j \in DOMAIN jobber_df :
            ( /\ PairWithin(i, j)
              /\ IdentityKnown(capitalone_df[i].person)
              /\ IdentityKnown(jobber_df[j].person)
              /\ IdentityScore(capitalone_df[i].person, jobber_df[j].person) = 0
              /\ OnlyPairWithin(i, j) ) => IsMatched(i, j)

\* C5 (zero tolerance is valid): with tolerance_days = 0 or tolerance_amount
\* = 0 the run raises no error (the score of an exact pair being 1.0, not a
\* division by zero), and the candidates of such a run are pairs with exactly
\* equal dates (resp. amounts).
C5_ZeroToleranceValid ==
    (tolerance_days = 0 \/ tolerance_amount = 0) =>
        /\ pc # "ZeroDivisionError"
        /\ Generated =>
              \A i \in DOMAIN capitalone_df, j \in DOMAIN jobber_df :
                  IsCandidate(i, j) =>
                      /\ tolerance_days = 0 => capitalone_df[i].date = jobber_df[j].date
                      /\ tolerance_amount = 0 => capitalone_df[i].amount = jobber_df[j].amount

\* The two weighted sums, as numerators over QualityDen.
WeightedWithIdentity(date_diff, amount_diff, score) ==
    20 * (tolerance_days - date_diff) * tolerance_amount
    + 40 * (tolerance_amount - amount_diff) * tolerance_days
    + 4 * score * tolerance_days * tolerance_amount

WeightedWithoutIdentity(date_diff, amount_diff) ==
    30 * (tolerance_days - date_diff) * tolerance_amount
    + 70 * (tolerance_amount - amount_diff) * tolerance_days

CandDateDiff(m) == Abs(capitalone_df[m.cap_idx].date - jobber_df[m.job_idx].date)
CandAmountDiff(m) == Abs(capitalone_df[m.cap_idx].amount - jobber_df[m.job_idx].amount)
CandCapPerson(m) == capitalone_df[m.cap_idx].person
CandJobPerson(m) == jobber_df[m.job_idx].person

C7_UnknownNotCompared ==
    (Generated /\ check_person) =>
        \A i \in DOMAIN capitalone_df, j \in DOMAIN jobber_df :
            (~IdentityKnown(capitalone_df[i].person) \/ ~IdentityKnown(jobber_df[j].person)) =>
                /\ IsCandidate(i, j) <=> PairWithin(i, j)
                /\ \A k \in DOMAIN matches :
                      (matches[k].cap_idx = i /\ matches[k].job_idx = j) =>
                          matches[k].person_match_quality = 10

\* Generation order: source order first, then target order.
GeneratedBefore(x, y) ==
    x.cap_idx < y.cap_idx \/ (x.cap_idx = y.cap_idx /\ x.job_idx < y.job_idx)

Sorted == pc \in {"dedup", "returned"}

Accepted(m) == \E k \in DOMAIN final_matches : final_matches[k] = m

\* A record of matches[p] was consumed by an accepted candidate processed before p.
ConsumedBefore(p) ==
    \E p0 \in 1..(p - 1) :
        /\ Accepted(matches[p0])
        /\ (matches[p0].cap_idx = matches[p].cap_idx \/ matches[p0].job_idx = matches[p].job_idx)

\* The processing order is descending quality with ties in generation order,
\* and holds exactly the generated candidates.
C8_ProcessingOrder ==
    Sorted =>
        /\ \A a, b \in DOMAIN matches :
              a < b => \/ matches[a].match_quality > matches[b].match_quality
                       \/ /\ matches[a].match_quality = matches[b].match_quality
                          /\ GeneratedBefore(matches[a], matches[b])
        /\ LET admitted == {ij \in (DOMAIN capitalone_df) \X (DOMAIN jobber_df) :
                                PairAdmitted(capitalone_df, jobber_df, ij[1], ij[2])}
           IN  /\ Len(matches) = Cardinality(admitted)
               /\ {matches[k] : k \in DOMAIN matches}
                      = {MatchOf(capitalone_df, jobber_df, ij[1], ij[2]) : ij \in admitted}

\* A candidate is accepted iff no record of it was consumed earlier, and the
\* accepted matches are listed in non-increasing quality.
C8_GreedyAcceptance ==
    pc = "returned" =>
        /\ \A p \in DOMAIN matches : Accepted(matches[p]) <=> ~ConsumedBefore(p)
        /\ \A a, b \in DOMAIN final_matches :
              a < b => final_matches[a].match_quality >= final_matches[b].match_quality

\* C8 as stated (greedy assignment order): processing order, acceptance rule,
\* and: whenever two sources are candidates for one target, the one processed
\* first (higher quality, on a tie the earlier source) is matched to it and the
\* other is not.
C8_GreedyOrder ==
    /\ C8_ProcessingOrder
    /\ C8_GreedyAcceptance
    /\ pc = "returned" =>
          \A p, p2 \in DOMAIN matches :
              (p < p2 /\ matches[p].job_idx = matches[p2].job_idx) =>
                  (Accepted(matches[p]) /\ ~Accepted(matches[p2]))

\* C8 amended: processing order and acceptance rule as stated; of two sources
\* that are candidates for one target, the one processed first is matched to
\* it and the other is not, provided no record of the first pair was consumed
\* by an earlier-processed candidate; in every case at most one of the two is
\* matched to that target.
C8_GreedyOrderAmended ==
    /\ C8_ProcessingOrder
    /\ C8_GreedyAcceptance
    /\ pc = "returned" =>
          \A p, p2 \in DOMAIN matches :
              (p < p2 /\ matches[p].job_idx = matches[p2].job_idx) =>
                  /\ ~ConsumedBefore(p) => (Accepted(matches[p]) /\ ~Accepted(matches[p2]))
                  /\ ~(Accepted(matches[p]) /\ Accepted(matches[p2]))

\* Two sources tie for the only target: the earlier source is matched, the
\* later one is left unmatched.
C8_Witness ==
    /\ pc = "returned"
    /\ Len(jobber_df) = 1 /\ Len(capitalone_df) = 2
    /\ Len(matches) = 2
    /\ matches[1].match_quality = matches[2].match_quality
    /\ final_matches = <<matches[1]>>
    /\ matches[1].cap_idx = 1
    /\ UnmatchedSource = {2}

\* C9 (quality range): with positive tolerances every generated candidate has
\* 0 <= quality <= 1, i.e. 0 <= match_quality <= QualityDen.
C9_QualityRange ==
    (tolerance_days > 0 /\ tolerance_amount > 0) =>
        \A k \in DOMAIN matches :
            /\ 0 <= matches[k].match_quality
            /\ matches[k].match_quality <= QualityDen

\* With check_person on: a candidate of quality exactly 1 beside a candidate
\* with a partial (0.8) identity score and a quality below 1.
C9_Witness ==
    /\ check_person
    /\ \E k \in DOMAIN matches : matches[k].match_quality = QualityDen
    /\ \E k \in DOMAIN matches :
          /\ matches[k].person_match_quality = 8
          /\ matches[k].match_quality < QualityDen

ScenarioA ==
    /\ ~check_person
    /\ tolerance_amount = 4 /\ tolerance_days = 2
    /\ Len(capitalone_df) = 1 /\ Len(jobber_df) = 1
    /\ capitalone_df[1].amount = 200 /\ jobber_df[1].amount = 203
    /\ Abs(capitalone_df[1].date - jobber_df[1].date) = 1

\* C10 (identity off): with check_person off, in every run that generates its
\* candidates a pair is a candidate iff its date and amount are within
\* tolerance, whatever the two identities, with quality 0.3*dateScore +
\* 0.7*amountScore; Scenario A returns one match with date_diff 1,
\* amount_diff 1.5 and quality 0.325.
C10_IdentityOff ==
    ~check_person =>
        /\ Generated =>
              \A i \in DOMAIN capitalone_df, j \in DOMAIN jobber_df :
                  IsCandidate(i, j) <=> PairWithin(i, j)
        /\ \A k \in DOMAIN matches :
              matches[k].match_quality =
                  WeightedWithoutIdentity(CandDateDiff(matches[k]), CandAmountDiff(matches[k]))
        /\ (ScenarioA /\ pc = "returned") =>
              /\ Len(final_matches) = 1
              /\ final_matches[1].date_diff = 1
              /\ final_matches[1].amount_diff = 3
              /\ final_matches[1].match_quality * 1000 = 325 * QualityDen

\* Scenario A between two different known people, returned with its match.
C10_Witness ==
    /\ ScenarioA
    /\ pc = "returned"
    /\ capitalone_df[1].person = AaronDavidson
    /\ jobber_df[1].person = AlexMasuda
    /\ Len(final_matches) = 1

\* C11 (identity score): with check_person on and both identities known, the
\* score of a pair is 1.0 iff the names are equal ignoring case, else 0.8 iff
\* one contains the other ignoring case, else 0.0; a candidate records that
\* score; and "Aaron Davidson" against "Aaron" on the same date and amount has
\* score 0.8 and quality 0.2 + 0.4 + 0.4*0.8 = 0.92.
C11_IdentityScore ==
    check_person =>
        /\ \A i \in DOMAIN capitalone_df, j \in DOMAIN jobber_df :
              LET cp == capitalone_df[i].person
                  jp == jobber_df[j].person
                  a == lower(strip(cp))
                  b == lower(strip(jp))
                  within == \/ \E k \in 0..(Len(b) - Len(a)) : SubSeq(b, k + 1, k + Len(a)) = a
                            \/ \E k \in 0..(Len(a) - Len(b)) : SubSeq(a, k + 1, k + Len(b)) = b
                  q == PersonCheck(cp, jp).person_match_quality
              IN  (IdentityKnown(cp) /\ IdentityKnown(jp)) =>
                      /\ q \in {10, 8, 0}
                      /\ q = 10 <=> a = b
                      /\ q = 8 <=> (a # b /\ within)
                      /\ q = 0 <=> (a # b /\ ~within)
        /\ \A k \in DOMAIN matches :
              LET m == matches[k]
              IN  /\ (IdentityKnown(CandCapPerson(m)) /\ IdentityKnown(CandJobPerson(m))) =>
                        m.person_match_quality = IdentityScore(CandCapPerson(m), CandJobPerson(m))
                  /\ ( /\ CandCapPerson(m) = AaronDavidson /\ CandJobPerson(m) = Aaron
                       /\ CandDateDiff(m) = 0 /\ CandAmountDiff(m) = 0 ) =>
                        /\ m.person_match_quality = 8
                        /\ m.match_quality * 100 = 92 * QualityDen

\* Scenario D as a generated candidate, beside a candidate whose names are
\* equal only when case is ignored.
C11_Witness ==
    /\ check_person
    /\ Generated
    /\ \E k \in DOMAIN matches :
          /\ CandCapPerson(matches[k]) = AaronDavidson /\ CandJobPerson(matches[k]) = Aaron
          /\ CandDateDiff(matches[k]) = 0 /\ CandAmountDiff(matches[k]) = 0
          /\ matches[k].match_quality * 100 = 92 * QualityDen
    /\ \E k \in DOMAIN matches :
          /\ CandCapPerson(matches[k]) = AaronDavidson
          /\ CandJobPerson(matches[k]) = aaron_davidson
          /\ matches[k].person_match_quality = 10

\* C13 (maximality): when find_matches has returned, every generated candidate
\* has its source id in used_cap_idx or its target id in used_job_idx, so no
\* candidate joins two unmatched records.
C13_Maximal ==
    pc = "returned" =>
        \A k \in DOMAIN matches :
            matches[k].cap_idx \in used_cap_idx \/ matches[k].job_idx \in used_job_idx

\* A returned run in which a candidate was rejected and a later one accepted.
C13_Witness ==
    /\ pc = "returned"
    /\ \E p, p2 \in DOMAIN matches :
          p < p2 /\ ~Accepted(matches[p]) /\ Accepted(matches[p2])


\* ---------------------------------------------------------------- C14
Reported == pc \in {"statistics", "done", "ZeroDivisionError in main"}

StatusRows(status) == {r \in DOMAIN report_data : report_data[r].Status = status}

\* The k-th smallest member of a set of index labels.
KthSmallest(S, k) == CHOOSE x \in S : Cardinality({y \in S : y < x}) = k - 1

\* The source record a report row stands for (rows 1 .. matches + unmatched sources).
SourceOfRow(r) ==
    IF r <= Len(final_matches) THEN final_matches[r].cap_idx
    ELSE KthSmallest(UnmatchedSource, r - Len(final_matches))

\* The target record a report row stands for (MATCH rows and the trailing rows).
TargetOfRow(r) ==
    IF r <= Len(final_matches) THEN final_matches[r].job_idx
    ELSE KthSmallest(UnmatchedTarget,
                     r - Len(final_matches) - Cardinality(UnmatchedSource))

ShowsSource(row, i) ==
    /\ row.CapitalOne_Date = strftime(capitalone_df[i].date)
    /\ row.CapitalOne_Amount = capitalone_df[i].amount
    /\ row.CapitalOne_Person = capitalone_df[i].person

ShowsTarget(row, j) ==
    /\ row.Jobber_Date = strftime(jobber_df[j].date)
    /\ row.Jobber_Amount = jobber_df[j].amount
    /\ row.Jobber_Person = jobber_df[j].person

\* C14: the report holds one MATCH row per accepted match in match order,
\* then one MISSING_IN_JOBBER row per source record outside used_cap_idx,
\* then one MISSING_IN_CAPITALONE row per target record outside
\* used_job_idx; every source and every target record stands in exactly one
\* row, the report has |source| + |target| - |matches| rows, and the counts
\* main derives as len(source) - matched and len(target) - matched are the
\* numbers of MISSING_IN_JOBBER and MISSING_IN_CAPITALONE rows.
C14_ReportRows ==
    Reported =>
        LET n  == Len(final_matches)
            us == Cardinality(UnmatchedSource)
            ut == Cardinality(UnmatchedTarget)
        IN  /\ Len(report_data) = Len(capitalone_df) + Len(jobber_df) - n
            /\ Len(report_data) = n + us + ut
            /\ \A r \in 1..n :
                  /\ report_data[r].Status = "MATCH"
                  /\ ShowsSource(report_data[r], final_matches[r].cap_idx)
                  /\ ShowsTarget(report_data[r], final_matches[r].job_idx)
            /\ \A r \in (n + 1)..(n + us) :
                  /\ report_data[r].Status = "MISSING_IN_JOBBER"
                  /\ ShowsSource(report_data[r], SourceOfRow(r))
            /\ \A r \in (n + us + 1)..(n + us + ut) :
                  /\ report_data[r].Status = "MISSING_IN_CAPITALONE"
                  /\ ShowsTarget(report_data[r], TargetOfRow(r))
            /\ \A i \in DOMAIN capitalone_df :
                  Cardinality({r \in 1..(n + us) : SourceOfRow(r) = i}) = 1
            /\ \A j \in DOMAIN jobber_df :
                  Cardinality({r \in (1..n) \cup ((n + us + 1)..(n + us + ut)) :
                                  TargetOfRow(r) = j}) = 1
            /\ matched_count # -1 =>
                  /\ matched_count = Cardinality(StatusRows("MATCH"))
                  /\ cap_only_count = Cardinality(StatusRows("MISSING_IN_JOBBER"))
                  /\ job_only_count = Cardinality(StatusRows("MISSING_IN_CAPITALONE"))

C14_Witness ==
    /\ pc = "done"
    /\ Len(report_data) = 3
    /\ report_data[1].Status = "MATCH"
    /\ report_data[2].Status = "MISSING_IN_JOBBER"
    /\ report_data[3].Status = "MISSING_IN_CAPITALONE"
    /\ used_cap_idx = {2}
    /\ used_job_idx = {1}
    /\ matched_count = 1
    /\ cap_only_count = 1
    /\ job_only_count = 1

\* ---------------------------------------------------------------- C15
\* C15: every match find_matches produces has person_match = TRUE, with
\* check_person on and with it off; hence no MATCH row of the report carries
\* the 'Different Person' status and the person-mismatch count main computes
\* is 0 whenever it is computed.
C15_PersonMatchAlwaysTrue ==
    /\ \A k \in DOMAIN matches : matches[k].person_match
    /\ \A k \in DOMAIN final_matches : final_matches[k].person_match
    /\ \A r \in DOMAIN report_data :
          report_data[r].Status = "MATCH" => report_data[r].Person_Check = "Match"
    /\ person_mismatches \in {-1, 0}
    /\ (pc = "done" /\ check_person /\ Len(final_matches) > 0) => person_mismatches = 0

C15_Witness ==
    /\ pc = "done"
    /\ check_person
    /\ person_mismatches = 0
    /\ \E r \in DOMAIN report_data : report_data[r].Status = "MATCH"
    /\ \E i \in DOMAIN capitalone_df, j \in DOMAIN jobber_df :
          /\ PairWithin(i, j)
          /\ PersonCompared(capitalone_df[i].person, jobber_df[j].person)
          /\ ~PersonCheck(capitalone_df[i].person, jobber_df[j].person).person_match
          /\ ~IsCandidate(i, j)

====
